---- MODULE Spec2Model ----
(***************************************************************************)
(* The paper-trading ledger of TradesService (src/trades_service.py): open *)
(* positions, pending limit orders, closed-trade history and the sqlite    *)
(* trades table, with the fee lookup of BinanceService.                    *)
(*                                                                         *)
(* Money is kept in exact integers.  Prices and sizes are whole numbers;   *)
(* fee rates are counted in units of 1/Scale (0.0002 is 2), and fees, pnl, *)
(* net_pnl and breakeven in units of 1/Scale of the quote currency.        *)
(***************************************************************************)
EXTENDS Integers, Sequences, FiniteSets, TLC

\* ------------------------------------------------------------------ bounds
MaxSteps == 3      \* operations in one run

\* --------------------------------------------------------------- constants
Scale == 10000           \* basis-point divisor; the unit of rates and money
DefaultMaker == 2        \* 0.0002
DefaultTaker == 4        \* 0.0004
NA == -1                 \* the feed's "n/a": a price float() cannot parse
Missing == 0             \* a commission field that is absent (None) or zero

Symbols == {"BTCUSDT", "ETHUSDT"}
Sides == {"BUY", "SELL"}
Sizes == {2}
Prices == {100, 110}
MarkValues == Prices \cup {NA}

\* What exchange_info carries for each symbol: <<makerCommission,
\* takerCommission>> in units of 1/Scale.  BTCUSDT has no commission fields;
\* ETHUSDT has the integer 3 (basis-point style, 3 * Scale) as maker and the
\* fraction 0.0005 as taker.
ExchangeInfo ==
    [s \in Symbols |-> IF s = "BTCUSDT" THEN <<Missing, Missing>>
                       ELSE <<3 * Scale, 5>>]

\* --------------------------------------------------------------------- ids
\* f"{symbol}-{hex}" and f"{position_id}-exit"
Id(sym, hex) == [sym |-> sym, hex |-> hex, exit |-> FALSE]
ExitId(position_id) == [position_id EXCEPT !.exit = TRUE]
NoId == [sym |-> "", hex |-> "", exit |-> FALSE]
\* the suffixes secrets.token_hex(3) draws from
HexTokens == {"0a3f1c", "7be204"}
BaseIds == {Id(s, h) : s \in Symbols, h \in HexTokens}

VARIABLES positions, history, orders, db, commission_cache, last, steps,
          suspended, current_symbol

vars == <<positions, history, orders, db, commission_cache, last, steps,
          suspended, current_symbol>>

\* ----------------------------------------------------------------- helpers
Range(seq) == {seq[i] : i \in 1..Len(seq)}
IdsOf(seq) == {seq[i].id : i \in 1..Len(seq)}

\* a search loop whose variable is read after the loop: when nothing
\* matches it still holds the last position
FindPosLoopVariable(ps, pid) ==
    IF \E i \in 1..Len(ps) : ps[i].id = pid
    THEN CHOOSE i \in 1..Len(ps) :
            ps[i].id = pid /\ \A j \in 1..(i - 1) : ps[j].id # pid
    ELSE Len(ps)

\* next((p for p in positions if p["id"] == pid), None): its index, 0 for None
FindPos(ps, pid) ==
    IF \E i \in 1..Len(ps) : ps[i].id = pid
    THEN CHOOSE i \in 1..Len(ps) :
            ps[i].id = pid /\ \A j \in 1..(i - 1) : ps[j].id # pid
    ELSE 0

\* list.remove(x): drops the first element equal to x
RemoveFirst(seq, x) ==
    LET i == CHOOSE k \in 1..Len(seq) :
                seq[k] = x /\ \A j \in 1..(k - 1) : seq[j] # x
    IN  SubSeq(seq, 1, i - 1) \o SubSeq(seq, i + 1, Len(seq))

side_mult(side) == IF side = "BUY" THEN 1 ELSE -1

\* ------------------------------------------------------------ fee resolver
NoRates == <<>>

\* "if not maker: maker = 0.0002" then "if maker > 1: maker = maker / 10000"
NormaliseRate(raw, default) ==
    LET r == IF raw = Missing THEN default ELSE raw
    IN  IF r > Scale THEN r \div Scale ELSE r

\* BinanceService.get_symbol_commission_rates: the cached pair if there is
\* one, else the normalised payload, which is then cached.
get_symbol_commission_rates(cache, symbol) ==
    IF cache[symbol] # NoRates
    THEN [rates |-> cache[symbol], cache |-> cache]
    ELSE LET pair == <<NormaliseRate(ExchangeInfo[symbol][1], DefaultMaker),
                       NormaliseRate(ExchangeInfo[symbol][2], DefaultTaker)>>
         IN  [rates |-> pair, cache |-> [cache EXCEPT ![symbol] = pair]]

\* --------------------------------------------------------------- next id
\* candidates checked against the positions and the orders, not the history
next_id_ignoring_history(symbol, hist, ps, os) ==
    {Id(symbol, h) : h \in HexTokens} \ (IdsOf(ps) \cup IdsOf(os))

\* The candidates _next_id can return: any symbol-prefixed suffix that is
\* not the id of a history row, a position or an order.
next_id(symbol, hist, ps, os) ==
    {Id(symbol, h) : h \in HexTokens} \ (IdsOf(hist) \cup IdsOf(ps) \cup IdsOf(os))

\* ----------------------------------------------------------- persistence
\* INSERT INTO trades ... ; id is the PRIMARY KEY.  rejected: the store
\* refuses the write (disk, lock).
insert_trade(table, trade, rejected) ==
    IF rejected THEN [db |-> table, raised |-> "OperationalError"]
    ELSE IF trade.id \in IdsOf(table)
         THEN [db |-> table, raised |-> "IntegrityError"]
         ELSE [db |-> Append(table, trade), raised |-> ""]

\* ---------------------------------------------------------------- records
NewPosition(id, symbol, side, size, price, maker, taker, fee_rate) ==
    [id |-> id, symbol |-> symbol, side |-> side, size |-> size,
     entry |-> price,
     breakeven |-> IF side = "BUY" THEN price * (Scale + maker * 2)
                   ELSE price * (Scale - maker * 2),
     open_fee |-> price * size * fee_rate,
     pnl |-> 0,
     net_pnl |-> 0 - price * size * fee_rate,
     maker_fee_rate |-> maker, taker_fee_rate |-> taker]

\* the close fee taken off the position's running net_pnl, which already
\* carries the open fee and a prospective close fee
ClosedTradeFromNetPnl(pos, close_price, fee_rate) ==
    LET pnl == (close_price - pos.entry) * pos.size * side_mult(pos.side) * Scale
        fee == close_price * pos.size * fee_rate
    IN  [id |-> pos.id, symbol |-> pos.symbol, side |-> pos.side,
         size |-> pos.size, entry |-> pos.entry, close |-> close_price,
         net_pnl |-> pnl + pos.net_pnl - fee]

\* the "closed" dict of a position closed at close_price with fee_rate
ClosedTrade(pos, close_price, fee_rate) ==
    LET pnl == (close_price - pos.entry) * pos.size * side_mult(pos.side) * Scale
        fee == close_price * pos.size * fee_rate
    IN  [id |-> pos.id, symbol |-> pos.symbol, side |-> pos.side,
         size |-> pos.size, entry |-> pos.entry, close |-> close_price,
         net_pnl |-> pnl - pos.open_fee - fee]

NewOrder(id, symbol, side, size, limit_price, position_id) ==
    [id |-> id, symbol |-> symbol, side |-> side, size |-> size,
     limit_price |-> limit_price,
     linked |-> position_id # NoId,          \* "position_id" in o
     position_id |-> position_id]

Call(op, id, price, outcome, filled) ==
    [op |-> op, id |-> id, price |-> price, outcome |-> outcome, filled |-> filled]

\* ------------------------------------------------------------------- Init
OldTrade ==
    [id |-> Id("BTCUSDT", "0a3f1c"), symbol |-> "BTCUSDT", side |-> "BUY", size |-> 1,
     entry |-> 100, close |-> 110, net_pnl |-> 10 * Scale - 400 - 440]

\* trades.db as a previous run left it
InitialStores == {<<>>, <<OldTrade>>}

\* __init__: empty ledger, then _load_history_from_db
Init ==
    /\ db \in InitialStores
    /\ history = db
    /\ positions = <<>>
    /\ orders = <<>>
    /\ commission_cache = [s \in Symbols |-> NoRates]
    /\ last = Call("init", NoId, 0, "", <<>>)
    /\ steps = 0
    /\ suspended = <<>>
    /\ current_symbol = "BTCUSDT"


\* ------------------------------------------------------------- operations
Budget == steps < MaxSteps

\* every string taken for a number
not_numeric_never(text) == FALSE

\* float(mark) raises ValueError: the feed's "n/a"
not_numeric(text) == text = NA

\* submit_market_order(symbol, side, size, price): price = NA stands for
\* price=None, and then mark is the feed's mark price; pos_id is the draw of
\* _next_id.
submit_market_order(symbol, side, size, price, mark, pos_id) ==
    /\ Budget
    /\ steps' = steps + 1
    /\ UNCHANGED <<suspended, current_symbol>>
    /\ IF price = NA /\ not_numeric(mark)
       THEN \* float(mark) raises: "Could not determine entry price"
            /\ last' = Call("submit_market_order", NoId, NA, "ValueError", <<>>)
            /\ UNCHANGED <<positions, history, orders, db, commission_cache>>
       ELSE LET entry == IF price = NA THEN mark ELSE price
                r == get_symbol_commission_rates(commission_cache, symbol)
            IN  /\ pos_id \in next_id(symbol, history, positions, orders)
                /\ positions' = Append(positions,
                       NewPosition(pos_id, symbol, side, size, entry,
                                   r.rates[1], r.rates[2], r.rates[2]))
                /\ commission_cache' = r.cache
                /\ last' = Call("submit_market_order", pos_id, entry, "returned", <<>>)
                /\ UNCHANGED <<history, orders, db>>

\* submit_limit_order(symbol, side, size, limit_price, position_id):
\* position_id = NoId stands for None; order_id is the draw of _next_id and
\* is read only for an entry order.
submit_limit_order(symbol, side, size, limit_price, position_id, order_id) ==
    /\ Budget
    /\ steps' = steps + 1
    /\ UNCHANGED <<suspended, current_symbol>>
    /\ IF position_id = NoId
       THEN order_id \in next_id(symbol, history, positions, orders)
       ELSE order_id = ExitId(position_id)
    /\ orders' = Append(orders,
           NewOrder(order_id, symbol, side, size, limit_price, position_id))
    /\ last' = Call("submit_limit_order", position_id, limit_price, "returned", <<>>)
    /\ UNCHANGED <<positions, history, db, commission_cache>>

\* the comparison the wrong way round
KeptOnCancelInverted(o, order_id) == o.id = order_id

\* o["id"] != order_id
KeptOnCancel(o, order_id) == o.id # order_id

\* cancel_order(order_id)
cancel_order(order_id) ==
    /\ Budget
    /\ steps' = steps + 1
    /\ UNCHANGED <<suspended, current_symbol>>
    /\ orders' = SelectSeq(orders, LAMBDA o : KeptOnCancel(o, order_id))
    /\ last' = Call("cancel_order", order_id, 0, "returned", <<>>)
    /\ UNCHANGED <<positions, history, db, commission_cache>>

\* the close fee taken off the previous net_pnl instead of the fresh pnl
RefreshPnlAccumulating(pos, mark_price) ==
    LET pnl == (mark_price - pos.entry) * pos.size * side_mult(pos.side) * Scale
        close_fee == mark_price * pos.size * pos.taker_fee_rate
    IN  [pos EXCEPT !.pnl = pnl, !.net_pnl = pos.net_pnl + pnl - close_fee]

\* the service's default taker rate instead of the position's own
RefreshPnlDefaultRate(pos, mark_price) ==
    LET pnl == (mark_price - pos.entry) * pos.size * side_mult(pos.side) * Scale
        close_fee == mark_price * pos.size * DefaultTaker
    IN  [pos EXCEPT !.pnl = pnl, !.net_pnl = pnl - pos.open_fee - close_fee]

\* the rates of the position replaced by the service's current ones
RefreshPnlCurrentRates(pos, mark_price) ==
    LET pnl == (mark_price - pos.entry) * pos.size * side_mult(pos.side) * Scale
        close_fee == mark_price * pos.size * DefaultTaker
    IN  [pos EXCEPT !.pnl = pnl, !.net_pnl = pnl - pos.open_fee - close_fee,
                    !.maker_fee_rate = DefaultMaker,
                    !.taker_fee_rate = DefaultTaker]

\* one position after update_positions_pnl(mark_price)
RefreshPnl(pos, mark_price) ==
    LET pnl == (mark_price - pos.entry) * pos.size * side_mult(pos.side) * Scale
        close_fee == mark_price * pos.size * pos.taker_fee_rate
    IN  [pos EXCEPT !.pnl = pnl, !.net_pnl = pnl - pos.open_fee - close_fee]

\* update_positions_pnl(mark_price)
update_positions_pnl(mark_price) ==
    /\ Budget
    /\ steps' = steps + 1
    /\ UNCHANGED <<suspended, current_symbol>>
    /\ positions' = [i \in 1..Len(positions) |-> RefreshPnl(positions[i], mark_price)]
    /\ last' = Call("update_positions_pnl", NoId, mark_price, "returned", <<>>)
    /\ UNCHANGED <<history, orders, db, commission_cache>>

\* strict comparisons: a last price equal to the limit does not fill
TriggerStrict(o, last_price) ==
    IF o.side = "BUY" THEN last_price < o.limit_price
    ELSE last_price > o.limit_price

\* the trigger test of check_and_fill_limit_orders
Trigger(o, last_price) ==
    IF o.side = "BUY" THEN last_price <= o.limit_price
    ELSE last_price >= o.limit_price

\* the service's default maker rate instead of the position's own
ExitFeeRateDefault(pos) == DefaultMaker

\* an entry order filled at the observed last price
EntryFillAtLast(o, last_price) == last_price

\* the entry price of the position an entry order fills into
EntryFillPrice(o, last_price) == o.limit_price

\* the newest record put first
RecordCloseFirst(hist, closed) == <<closed>> \o hist

\* self.history.append(closed)
RecordClose(hist, closed) == Append(hist, closed)

\* the service's default taker rate instead of the position's own
CloseFeeRateDefault(pos) == DefaultTaker

\* the rate of the close fee of a market close
CloseFeeRate(pos) == pos.taker_fee_rate

\* the triggered orders, last submitted first
FilledOrdersReversed(os, last_price) ==
    LET f == SelectSeq(os, LAMBDA o :
                IF o.side = "BUY" THEN last_price <= o.limit_price
                ELSE last_price >= o.limit_price)
    IN  [k \in 1..Len(f) |-> f[Len(f) + 1 - k]]

\* exit orders whose position is not open are passed over
FilledOrdersOpenOnly(os, last_price) ==
    SelectSeq(os, LAMBDA o :
        /\ IF o.side = "BUY" THEN last_price <= o.limit_price
           ELSE last_price >= o.limit_price
        /\ o.linked => o.position_id \in IdsOf(positions))

\* "filled": the triggered orders, in the order of self.orders
FilledOrders(os, last_price) == SelectSeq(os, LAMBDA o : Trigger(o, last_price))

\* the price an exit fill closes at, and the rate of its fee
ExitClosePrice(o, last_price) == o.limit_price
ExitFeeRate(pos) == pos.maker_fee_rate

\* The body of "for o in filled" for one order.  s carries the ledger while
\* the loop runs; failAt is the number of the store write that is rejected
\* (0: none).
FillOrder(s, o, last_price, failAt) ==
    IF o \notin Range(s.orders)
    THEN [s EXCEPT !.raised = "ValueError"]          \* list.remove(x): x not in list
    ELSE
    LET rest == RemoveFirst(s.orders, o)
        i == FindPos(s.positions, o.position_id)
    IN  IF o.linked
        THEN IF i = 0
             THEN [s EXCEPT !.orders = rest]
             ELSE LET pos == s.positions[i]
                      closed == ClosedTrade(pos, ExitClosePrice(o, last_price),
                                            ExitFeeRate(pos))
                      w == insert_trade(s.db, closed, s.writes + 1 = failAt)
                  IN  [s EXCEPT !.orders = rest,
                                !.positions = SelectSeq(s.positions,
                                                     LAMBDA p : p.id # pos.id),
                                !.history = RecordClose(s.history, closed),
                                !.db = w.db,
                                !.raised = w.raised,
                                !.writes = s.writes + 1]
        ELSE LET r == get_symbol_commission_rates(s.cache, o.symbol)
             IN  [s EXCEPT !.orders = rest,
                           !.positions = Append(s.positions,
                               NewPosition(o.id, o.symbol, o.side, o.size,
                                           EntryFillPrice(o, last_price),
                                           r.rates[1], r.rates[2], r.rates[1])),
                           !.cache = r.cache]

RECURSIVE FillAll(_, _, _, _, _)
FillAll(s, filled, k, last_price, failAt) ==
    IF k > Len(filled) \/ s.raised # "" THEN s
    ELSE FillAll(FillOrder(s, filled[k], last_price, failAt),
                 filled, k + 1, last_price, failAt)

\* check_and_fill_limit_orders(last_price), run without interleaving
check_and_fill_limit_orders(last_price, failAt) ==
    LET filled == FilledOrders(orders, last_price)
        s0 == [orders |-> orders, positions |-> positions, history |-> history,
               db |-> db, cache |-> commission_cache, raised |-> "", writes |-> 0]
        s == FillAll(s0, filled, 1, last_price, failAt)
    IN  /\ Budget
        /\ steps' = steps + 1
        /\ UNCHANGED <<suspended, current_symbol>>
        /\ failAt > 0 => s.raised = "OperationalError"
        /\ orders' = s.orders
        /\ positions' = s.positions
        /\ history' = s.history
        /\ db' = s.db
        /\ commission_cache' = s.cache
        /\ last' = Call("check_and_fill_limit_orders", NoId, last_price,
                        IF s.raised = "" THEN "returned" ELSE s.raised,
                        IF s.raised = "" THEN filled ELSE <<>>)

\* the order's own id compared with the position's
LinkedToById(o, position_id) == o.id = position_id

\* o.get("position_id") == position_id
LinkedTo(o, position_id) == o.linked /\ o.position_id = position_id

\* close_position_market(position_id): mark is the feed's mark price,
\* rejected says whether the store refuses the write.
close_position_market(position_id, mark, rejected) ==
    LET i == FindPos(positions, position_id) IN
    /\ Budget
    /\ steps' = steps + 1
    /\ UNCHANGED <<suspended, current_symbol>>
    /\ IF i = 0 \/ not_numeric(mark)
       THEN /\ ~rejected
            /\ last' = Call("close_position_market", position_id, mark, "None", <<>>)
            /\ UNCHANGED <<positions, history, orders, db, commission_cache>>
       ELSE LET pos == positions[i]
                closed == ClosedTrade(pos, mark, CloseFeeRate(pos))
                w == insert_trade(db, closed, rejected)
            IN  /\ positions' = SelectSeq(positions, LAMBDA p : p.id # position_id)
                /\ history' = RecordClose(history, closed)
                /\ db' = w.db
                /\ IF w.raised = ""
                   THEN /\ orders' = SelectSeq(orders,
                                LAMBDA o : ~LinkedTo(o, position_id))
                        /\ last' = Call("close_position_market", position_id, mark,
                                        "returned", <<>>)
                   ELSE /\ orders' = orders
                        /\ last' = Call("close_position_market", position_id, mark,
                                        w.raised, <<>>)
                /\ UNCHANGED commission_cache


\* ------------------------------------------------------------ the callers
\* an id that no position or order carries: _next_id never draws this suffix
UnknownId == Id("BTCUSDT", "ffffff")

\* ids a caller may name: those of the open positions (pending orders) and
\* one that is not among them
PositionArgs == IdsOf(positions) \cup {UnknownId}
OrderArgs == IdsOf(orders) \cup {UnknownId}

MarketOrder ==
    \E symbol \in Symbols, side \in Sides, size \in Sizes,
       price \in MarkValues, pos_id \in BaseIds :
        \E mark \in (IF price = NA THEN MarkValues ELSE {NA}) :
            submit_market_order(symbol, side, size, price, mark, pos_id)

EntryOrder ==
    \E symbol \in Symbols, side \in Sides, size \in Sizes,
       limit_price \in Prices, order_id \in BaseIds :
        submit_limit_order(symbol, side, size, limit_price, NoId, order_id)

ExitOrder ==
    \E side \in Sides, size \in Sizes,
       limit_price \in Prices, position_id \in PositionArgs :
        submit_limit_order(position_id.sym, side, size, limit_price, position_id,
                           ExitId(position_id))

Cancel == \E order_id \in OrderArgs : cancel_order(order_id)

Refresh == \E mark_price \in Prices : update_positions_pnl(mark_price)

EvaluationPass ==
    \E last_price \in Prices : check_and_fill_limit_orders(last_price, 0)

MarketClose ==
    \E position_id \in PositionArgs, mark \in MarkValues :
        close_position_market(position_id, mark, FALSE)

\* the same two with a store that refuses one write
EvaluationPassRejected ==
    \E last_price \in Prices, failAt \in 1..Len(orders) :
        check_and_fill_limit_orders(last_price, failAt)

MarketCloseRejected ==
    \E position_id \in PositionArgs, mark \in MarkValues :
        close_position_market(position_id, mark, TRUE)

Next ==
    \/ MarketOrder
    \/ EntryOrder
    \/ ExitOrder
    \/ Cancel
    \/ Refresh
    \/ EvaluationPass
    \/ MarketClose

NextRejecting ==
    \/ Next
    \/ EvaluationPassRejected
    \/ MarketCloseRejected

\* serialized operations on a store that accepts every write
Spec == Init /\ [][Next]_vars

\* serialized operations on a store that may refuse a write
SpecRejecting == Init /\ [][NextRejecting]_vars

\* ------------------------------------------------- passes with several fills
\* Runs long enough for two positions to be open with an exit order each
\* when a pass starts: market BUY orders at the low price, SELL exit orders
\* on open positions, SELL entry orders, and passes.
MaxFillSteps == 5

LowPrice == CHOOSE p \in Prices : \A q \in Prices : p <= q

\* the step count starts below the budget by MaxFillSteps
InitFills ==
    /\ db \in InitialStores
    /\ history = db
    /\ positions = <<>>
    /\ orders = <<>>
    /\ commission_cache = [s \in Symbols |-> NoRates]
    /\ last = Call("init", NoId, 0, "", <<>>)
    /\ steps = MaxSteps - MaxFillSteps
    /\ suspended = <<>>
    /\ current_symbol = "BTCUSDT"

FillsMarketOrder ==
    \E symbol \in Symbols, size \in Sizes, pos_id \in BaseIds :
        submit_market_order(symbol, "BUY", size, LowPrice, NA, pos_id)

FillsExitOrder ==
    \E size \in Sizes, limit_price \in Prices, position_id \in IdsOf(positions) :
        submit_limit_order(position_id.sym, "SELL", size, limit_price, position_id,
                           ExitId(position_id))

FillsEntryOrder ==
    \E symbol \in Symbols, size \in Sizes, limit_price \in Prices,
       order_id \in BaseIds :
        submit_limit_order(symbol, "SELL", size, limit_price, NoId, order_id)

NextFills ==
    \/ FillsMarketOrder
    \/ FillsExitOrder
    \/ FillsEntryOrder
    \/ EvaluationPass

SpecFills == InitFills /\ [][NextFills]_vars

\* ------------------------------------------- a close that is suspended
\* close_position_market awaits the price after it has looked the position
\* up; other operations run while it waits.  suspended holds the calls that
\* wait, each with the position dict it found.
close_position_market_begin(position_id) ==
    LET i == FindPos(positions, position_id) IN
    /\ Budget
    /\ steps' = steps + 1
    /\ UNCHANGED <<positions, history, orders, db, commission_cache,
                   current_symbol>>
    /\ IF i = 0
       THEN /\ last' = Call("close_position_market", position_id, NA, "None", <<>>)
            /\ suspended' = suspended
       ELSE /\ last' = Call("close_position_market", position_id, NA, "suspended",
                            <<>>)
            /\ suspended' = Append(suspended,
                               [position_id |-> position_id, pos |-> positions[i]])

\* the rest of the call, from the price the await hands back
close_position_market_resume(k, mark, rejected) ==
    LET position_id == suspended[k].position_id
        pos == suspended[k].pos
    IN
    /\ suspended' = SubSeq(suspended, 1, k - 1)
                       \o SubSeq(suspended, k + 1, Len(suspended))
    /\ UNCHANGED <<steps, commission_cache, current_symbol>>
    /\ IF not_numeric(mark)
       THEN /\ ~rejected
            /\ last' = Call("close_position_market resumed", position_id, mark,
                            "None", <<>>)
            /\ UNCHANGED <<positions, history, orders, db>>
       ELSE LET closed == ClosedTrade(pos, mark, CloseFeeRate(pos))
                w == insert_trade(db, closed, rejected)
            IN  /\ positions' = SelectSeq(positions, LAMBDA p : p.id # position_id)
                /\ history' = RecordClose(history, closed)
                /\ db' = w.db
                /\ orders' = IF w.raised = ""
                             THEN SelectSeq(orders,
                                      LAMBDA o : ~LinkedTo(o, position_id))
                             ELSE orders
                /\ last' = Call("close_position_market resumed", position_id, mark,
                                IF w.raised = "" THEN "returned" ELSE w.raised,
                                <<>>)

CloseBegin ==
    \E position_id \in IdsOf(positions) : close_position_market_begin(position_id)

CloseResume ==
    \E k \in 1..Len(suspended), mark \in MarkValues :
        close_position_market_resume(k, mark, FALSE)

NextSuspending ==
    \/ FillsMarketOrder
    \/ FillsExitOrder
    \/ EvaluationPass
    \/ MarketClose
    \/ CloseBegin
    \/ CloseResume

\* operations on a store that accepts every write, market closes suspended
\* at their await
SpecSuspending == InitFills /\ [][NextSuspending]_vars

\* -------------------------------------------- a pass that is suspended
\* check_and_fill_limit_orders awaits the fee rates inside its entry branch,
\* after the order has left self.orders.  The await gives way to other
\* operations only when the symbol is not cached (asyncio.to_thread); a
\* cached pair comes back at once.  Here suspended holds the pass that
\* waits: its list "filled", the index of the order it waits on, and the
\* last price.

\* get_symbol_commission_rates past its cache test: the payload normalised
\* and stored, whatever the cache holds by now
commission_rates_after_await(cache, symbol) ==
    LET pair == <<NormaliseRate(ExchangeInfo[symbol][1], DefaultMaker),
                  NormaliseRate(ExchangeInfo[symbol][2], DefaultTaker)>>
    IN  [rates |-> pair, cache |-> [cache EXCEPT ![symbol] = pair]]

\* "for o in filled" from order k up to the first await that gives way
\* (at: its index) or to the end of the loop (at = 0)
RECURSIVE FillUntilAwait(_, _, _, _)
FillUntilAwait(s, filled, k, last_price) ==
    IF k > Len(filled) \/ s.raised # "" THEN [s EXCEPT !.at = 0]
    ELSE LET o == filled[k] IN
         IF o \in Range(s.orders) /\ ~o.linked /\ s.cache[o.symbol] = NoRates
         THEN [s EXCEPT !.orders = RemoveFirst(s.orders, o), !.at = k]
         ELSE FillUntilAwait(FillOrder(s, o, last_price, 0), filled, k + 1,
                             last_price)

\* the ledger as the loop sees it when it starts or goes on
PassLedger ==
    [orders |-> orders, positions |-> positions, history |-> history,
     db |-> db, cache |-> commission_cache, raised |-> "", writes |-> 0,
     at |-> 0]

\* what a stretch of the loop leaves behind
PassEffect(s) ==
    /\ orders' = s.orders
    /\ positions' = s.positions
    /\ history' = s.history
    /\ db' = s.db
    /\ commission_cache' = s.cache

\* check_and_fill_limit_orders(last_price) up to its first await that gives
\* way, or to its end when there is none
check_and_fill_limit_orders_begin(last_price) ==
    LET filled == FilledOrders(orders, last_price)
        s == FillUntilAwait(PassLedger, filled, 1, last_price)
    IN  /\ Budget
        /\ steps' = steps + 1
        /\ UNCHANGED current_symbol
        /\ PassEffect(s)
        /\ IF s.at > 0
           THEN /\ suspended' = Append(suspended, [filled |-> filled, k |-> s.at,
                                                   last_price |-> last_price])
                /\ last' = Call("check_and_fill_limit_orders", NoId, last_price,
                                "suspended", <<>>)
           ELSE /\ suspended' = suspended
                /\ last' = Call("check_and_fill_limit_orders", NoId, last_price,
                                IF s.raised = "" THEN "returned" ELSE s.raised,
                                IF s.raised = "" THEN filled ELSE <<>>)

\* the rest of the pass once the rates are back: the position of the order
\* it waited on, then the orders after it
check_and_fill_limit_orders_resume(n) ==
    LET f == suspended[n]
        o == f.filled[f.k]
        r == commission_rates_after_await(commission_cache, o.symbol)
        s1 == [PassLedger EXCEPT
                 !.positions = Append(positions,
                     NewPosition(o.id, o.symbol, o.side, o.size,
                                 EntryFillPrice(o, f.last_price),
                                 r.rates[1], r.rates[2], r.rates[1])),
                 !.cache = r.cache]
        s == FillUntilAwait(s1, f.filled, f.k + 1, f.last_price)
        others == SubSeq(suspended, 1, n - 1)
                     \o SubSeq(suspended, n + 1, Len(suspended))
    IN  /\ UNCHANGED <<steps, current_symbol>>
        /\ PassEffect(s)
        /\ IF s.at > 0
           THEN /\ suspended' = Append(others, [f EXCEPT !.k = s.at])
                /\ last' = Call("check_and_fill_limit_orders resumed", NoId,
                                f.last_price, "suspended", <<>>)
           ELSE /\ suspended' = others
                /\ last' = Call("check_and_fill_limit_orders resumed", NoId,
                                f.last_price,
                                IF s.raised = "" THEN "returned" ELSE s.raised,
                                IF s.raised = "" THEN f.filled ELSE <<>>)

\* one pass at a time
PassBegin ==
    /\ suspended = <<>>
    /\ \E last_price \in Prices : check_and_fill_limit_orders_begin(last_price)

PassResume == \E n \in 1..Len(suspended) : check_and_fill_limit_orders_resume(n)

\* the removals: a pending order cancelled, an open position closed at market
PassCancel == \E order_id \in IdsOf(orders) : cancel_order(order_id)

PassMarketClose ==
    \E position_id \in IdsOf(positions) :
        close_position_market(position_id, LowPrice, FALSE)

NextPassSuspending ==
    \/ FillsMarketOrder
    \/ FillsExitOrder
    \/ FillsEntryOrder
    \/ PassCancel
    \/ PassMarketClose
    \/ PassBegin
    \/ PassResume

\* operations on a store that accepts every write, the pass suspended at the
\* await of its entry branch
SpecPassSuspending == InitFills /\ [][NextPassSuspending]_vars

\* ------------------------------------------------------------- a restart
\* Each row gets ts = CURRENT_TIMESTAMP, which counts whole seconds: the
\* timestamps of the rows, in insertion order, never decrease and may repeat.
Timestamps(n) ==
    {ts \in [1..n -> 1..n] : \A i \in 1..(n - 1) : ts[i] <= ts[i + 1]}

\* "SELECT ... FROM trades ORDER BY ts": the orders in which the rows can
\* come back, rows of equal ts in any order
load_history_from_db(table, ts) ==
    LET n == Len(table)
        perms == {p \in [1..n -> 1..n] :
                    /\ \A a, b \in 1..n : a # b => p[a] # p[b]
                    /\ \A k \in 1..(n - 1) : ts[p[k]] <= ts[p[k + 1]]}
    IN  {[k \in 1..n |-> table[p[k]]] : p \in perms}

\* the process ends and a new TradesService is constructed on the same
\* trades.db; ts are the timestamps the rows were stored with
restart(ts, loaded) ==
    /\ Budget
    /\ steps' = steps + 1
    /\ loaded \in load_history_from_db(db, ts)
    /\ history' = loaded
    /\ positions' = <<>>
    /\ orders' = <<>>
    /\ commission_cache' = [s \in Symbols |-> NoRates]
    /\ suspended' = <<>>
    /\ current_symbol' = "BTCUSDT"
    /\ last' = Call("restart", NoId, NA, "returned", <<>>)
    /\ UNCHANGED db

Restart ==
    \E ts \in Timestamps(Len(db)) :
        \E loaded \in load_history_from_db(db, ts) : restart(ts, loaded)

NextRestart ==
    \/ FillsMarketOrder
    \/ MarketClose
    \/ Restart

SpecRestart == InitFills /\ [][NextRestart]_vars

\* ------------------------------------------------------- the fee resolver
\* get_symbol_commission_rates called directly, with every payload the
\* exchange may answer: a field missing (or zero), a fraction below 1,
\* exactly 1, and integers above 1.
RawRates == {Missing, DefaultMaker, Scale \div 2, Scale, 3 * Scale, 15 * Scale}

RatesCall(symbol, raw, cached, rates) ==
    [op |-> "get_symbol_commission_rates", symbol |-> symbol, raw |-> raw,
     cached |-> cached, rates |-> rates]

\* fails: _get_exchange_info raises, so that both fields stay None
rates_lookup(symbol, fails, payload) ==
    LET raw == IF fails THEN <<Missing, Missing>> ELSE payload
        pair == <<NormaliseRate(raw[1], DefaultMaker),
                  NormaliseRate(raw[2], DefaultTaker)>>
    IN  /\ Budget
        /\ steps' = steps + 1
        /\ UNCHANGED <<positions, history, orders, db, suspended, current_symbol>>
        /\ IF commission_cache[symbol] # NoRates
           THEN /\ last' = RatesCall(symbol, raw, TRUE, commission_cache[symbol])
                /\ UNCHANGED commission_cache
           ELSE /\ last' = RatesCall(symbol, raw, FALSE, pair)
                /\ commission_cache' = [commission_cache EXCEPT ![symbol] = pair]

RatesLookup ==
    \E symbol \in Symbols, maker_raw \in RawRates, taker_raw \in RawRates :
        rates_lookup(symbol, FALSE, <<maker_raw, taker_raw>>)

RatesLookupFails ==
    \E symbol \in Symbols : rates_lookup(symbol, TRUE, <<Missing, Missing>>)

NextRates ==
    \/ RatesLookup
    \/ RatesLookupFails

SpecRates == Init /\ [][NextRates]_vars

\* ------------------------------------------------------ the application
\* BinancePriceApp keeps a ledger of its own in the same three lists and
\* the same trades.db; its handlers are modelled on the same variables.
fee_rate_maker == 2
fee_rate_taker == 4

\* the decimal suffixes of the application's ids, in counting order
Decimals == <<"1", "2", "3", "4", "5", "6", "7">>

\* row["id"].split("-")[-1]
IdSuffix(id) == IF id.exit THEN "exit" ELSE id.hex

\* int(suffix): the number, or -1 for ValueError
IntOf(suffix) ==
    IF \E n \in 1..Len(Decimals) : Decimals[n] = suffix
    THEN CHOOSE n \in 1..Len(Decimals) : Decimals[n] = suffix
    ELSE -1

\* BinancePriceApp._next_id: the ids it can return; none when max() or
\* int() raises ValueError
app_next_id(symbol, hist) ==
    LET nums == {IntOf(IdSuffix(hist[k].id)) : k \in 1..Len(hist)}
    IN  IF hist = <<>> \/ -1 \in nums
        THEN {}
        ELSE LET top == CHOOSE n \in nums : \A m \in nums : m <= n
             IN  {Id(symbol, Decimals[top + 1])}

\* INSERT OR REPLACE INTO trades: a row of the same id is replaced
insert_or_replace_trade(table, trade) ==
    Append(SelectSeq(table, LAMBDA row : row.id # trade.id), trade)

\* the position dict the application builds; target_price NA stands for
\* the missing key
AppPosition(id, symbol, side, size, price, breakeven_rate, fee_rate) ==
    [id |-> id, symbol |-> symbol, side |-> side, size |-> size,
     entry |-> price,
     breakeven |-> IF side = "BUY" THEN price * (Scale + breakeven_rate * 2)
                   ELSE price * (Scale - breakeven_rate * 2),
     pnl |-> 0,
     open_fee |-> price * size * fee_rate,
     net_pnl |-> 0 - price * size * fee_rate,
     target_price |-> NA]

AppCall(op, id, price, mark, outcome, filled) ==
    [op |-> op, id |-> id, price |-> price, mark |-> mark, outcome |-> outcome,
     filled |-> filled]

\* a trade an earlier run of the application stored
AppOldTrade ==
    [id |-> Id("BTCUSDT", "1"), symbol |-> "BTCUSDT", side |-> "BUY", size |-> 1,
     entry |-> 100, close |-> 110, net_pnl |-> 10 * Scale - 400 - 440]

\* on_mount: the history is what trades.db holds
InitApp ==
    /\ db \in InitialStores \cup {<<AppOldTrade>>}
    /\ history = db
    /\ positions = <<>>
    /\ orders = <<>>
    /\ commission_cache = [s \in Symbols |-> NoRates]
    /\ last = AppCall("init", NoId, NA, NA, "", <<>>)
    /\ steps = 0
    /\ suspended = <<>>
    /\ current_symbol = "BTCUSDT"

\* OrderForm: self.qty_input.value or "0"  (NA stands for the blank input)
FormQty(text) == IF text = NA THEN 0 ELSE text

\* "size = qty_value / entry if entry != 0 else 0.0" in USDT mode, else the
\* quantity itself; the USDT quantities used are multiples of the prices
OrderSize(qty, qty_mode, entry) ==
    IF qty_mode = "USDT"
    THEN IF entry # 0 THEN qty \div entry ELSE 0
    ELSE qty

\* order_submitted: price = NA stands for message.price None (a market
\* order at the fetched mark); qty is the quantity of the form, in coin or
\* in USDT.
order_submitted(symbol, side, qty, qty_mode, price, mark) ==
    /\ Budget
    /\ steps' = steps + 1
    /\ UNCHANGED <<suspended, current_symbol>>
    /\ UNCHANGED <<history, db, commission_cache>>
    /\ IF price = NA /\ mark = NA
       THEN \* "Invalid mark price"
            /\ last' = AppCall("order_submitted", NoId, NA, NA, "returned", <<>>)
            /\ UNCHANGED <<positions, orders>>
       ELSE IF app_next_id(symbol, history) = {}
       THEN /\ last' = AppCall("order_submitted", NoId, price, mark, "ValueError", <<>>)
            /\ UNCHANGED <<positions, orders>>
       ELSE LET position_id == CHOOSE id \in app_next_id(symbol, history) : TRUE
                entry == IF price = NA THEN mark ELSE price
                size == OrderSize(qty, qty_mode, entry)
            IN  /\ last' = AppCall("order_submitted", position_id, price, mark,
                                   "returned", <<>>)
                /\ IF price # NA
                   THEN /\ orders' = Append(orders,
                               NewOrder(position_id, symbol, side, size, price, NoId))
                        /\ UNCHANGED positions
                   ELSE /\ positions' = Append(positions,
                               AppPosition(position_id, symbol, side, size, entry,
                                           fee_rate_taker, fee_rate_taker))
                        /\ UNCHANGED orders

\* each price parsed in a try block of its own
ParseTickSeparately(last_s, mark_s) == [mark_f |-> mark_s, last_f |-> last_s]

\* "try: mark_f = float(mark); last_f = float(last)
\*  except ValueError: mark_f = None; last_f = None"  (NA stands for None)
ParseTick(last_s, mark_s) ==
    IF mark_s = NA \/ last_s = NA
    THEN [mark_f |-> NA, last_f |-> NA]
    ELSE [mark_f |-> mark_s, last_f |-> last_s]

\* the refresh of fetch_and_update for one position
AppRefreshPnl(pos, mark_f) ==
    LET pnl == (mark_f - pos.entry) * pos.size * side_mult(pos.side) * Scale
        close_fee == mark_f * pos.size * fee_rate_taker
    IN  [pos EXCEPT !.pnl = pnl, !.net_pnl = pnl - pos.open_fee - close_fee]

\* the body of "for o in filled" of fetch_and_update
AppFillOrder(s, o) ==
    LET rest == RemoveFirst(s.orders, o)
        i == FindPos(s.positions, o.position_id)
    IN  IF o.linked
        THEN IF i = 0
             THEN [s EXCEPT !.orders = rest]
             ELSE LET pos == s.positions[i]
                      closed == ClosedTrade(pos, o.limit_price, fee_rate_maker)
                  IN  [s EXCEPT !.orders = rest,
                                !.positions = SelectSeq(s.positions,
                                                     LAMBDA q : q.id # pos.id),
                                !.history = Append(s.history, closed),
                                !.db = insert_or_replace_trade(s.db, closed)]
        ELSE [s EXCEPT !.orders = rest,
                       !.positions = Append(s.positions,
                           AppPosition(o.id, o.symbol, o.side, o.size,
                                       o.limit_price, fee_rate_maker,
                                       fee_rate_maker))]

RECURSIVE AppFillAll(_, _, _)
AppFillAll(s, filled, k) ==
    IF k > Len(filled) THEN s
    ELSE AppFillAll(AppFillOrder(s, filled[k]), filled, k + 1)

\* fetch_and_update: raises says whether get_symbol_prices raises; last_s
\* and mark_s are the two prices of the tick (NA: "n/a").  Every exception
\* is caught and logged by the handler itself.
fetch_and_update(raises, last_s, mark_s) ==
    /\ Budget
    /\ steps' = steps + 1
    /\ UNCHANGED <<suspended, current_symbol>>
    /\ UNCHANGED commission_cache
    /\ IF raises
       THEN /\ last' = AppCall("fetch_and_update", NoId, NA, NA, "logged", <<>>)
            /\ UNCHANGED <<positions, orders, history, db>>
       ELSE LET t == ParseTick(last_s, mark_s)
                evaluate == t.last_f # NA /\ orders # <<>>
                filled == IF evaluate THEN FilledOrders(orders, t.last_f) ELSE <<>>
                s0 == [orders |-> orders, positions |-> positions,
                       history |-> history, db |-> db]
                s == AppFillAll(s0, filled, 1)
            IN  /\ orders' = s.orders
                /\ history' = s.history
                /\ db' = s.db
                /\ positions' =
                      IF t.mark_f # NA
                      THEN [i \in 1..Len(s.positions) |->
                               AppRefreshPnl(s.positions[i], t.mark_f)]
                      ELSE s.positions
                /\ last' = AppCall("fetch_and_update", NoId, last_s, mark_s,
                                   "returned", filled)

\* position_table_cell_selected on the Close column, run without
\* interleaving: mark is the fetched mark price
position_table_cell_selected(row_key, mark) ==
    LET i == FindPos(positions, row_key) IN
    /\ Budget
    /\ steps' = steps + 1
    /\ UNCHANGED <<suspended, current_symbol>>
    /\ UNCHANGED commission_cache
    /\ IF i = 0 \/ mark = NA
       THEN /\ last' = AppCall("position_table_cell_selected", row_key, NA, mark,
                               "returned", <<>>)
            /\ UNCHANGED <<positions, history, orders, db>>
       ELSE LET pos == positions[i]
                closed == ClosedTrade(pos, mark, fee_rate_taker)
            IN  /\ positions' = SelectSeq(positions, LAMBDA q : q.id # row_key)
                /\ history' = Append(history, closed)
                /\ db' = insert_or_replace_trade(db, closed)
                /\ orders' = SelectSeq(orders, LAMBDA o : ~LinkedTo(o, pos.id))
                /\ last' = AppCall("position_table_cell_selected", row_key, NA, mark,
                                   "closed", <<>>)

\* a click on the Limit column and the price the dialog hands to
\* _process_limit_result
process_limit_result(position_id, price) ==
    LET i == FindPos(positions, position_id) IN
    /\ Budget
    /\ steps' = steps + 1
    /\ UNCHANGED <<suspended, current_symbol>>
    /\ UNCHANGED <<history, db, commission_cache>>
    /\ IF i = 0 \/ positions[i].target_price # NA
                \/ app_next_id(positions[i].symbol, history) = {}
       THEN /\ last' = AppCall("_process_limit_result", position_id, price, NA,
                               "returned", <<>>)
            /\ UNCHANGED <<positions, orders>>
       ELSE LET pos == positions[i]
                order_id == CHOOSE id \in app_next_id(pos.symbol, history) : TRUE
                side == IF pos.side = "BUY" THEN "SELL" ELSE "BUY"
            IN  /\ positions' = [positions EXCEPT ![i].target_price = price]
                /\ orders' = Append(orders,
                       NewOrder(order_id, pos.symbol, side, pos.size, price,
                                position_id))
                /\ last' = AppCall("_process_limit_result", position_id, price, NA,
                                   "placed", <<>>)

AppPositionArgs == IdsOf(positions) \cup {Id("BTCUSDT", "9")}

AppMarketOrder ==
    \E symbol \in Symbols, side \in Sides, qty \in Sizes, mark \in MarkValues :
        order_submitted(symbol, side, qty, "COIN", NA, mark)

AppLimitOrder ==
    \E symbol \in Symbols, side \in Sides, qty \in Sizes, price \in Prices :
        order_submitted(symbol, side, qty, "COIN", price, NA)

AppTick ==
    \/ fetch_and_update(TRUE, NA, NA)
    \/ \E last_s \in MarkValues, mark_s \in MarkValues :
          fetch_and_update(FALSE, last_s, mark_s)

AppClose ==
    \E row_key \in AppPositionArgs, mark \in MarkValues :
        position_table_cell_selected(row_key, mark)

AppExitOrder ==
    \E position_id \in AppPositionArgs, price \in Prices :
        process_limit_result(position_id, price)

NextApp ==
    \/ AppMarketOrder
    \/ AppLimitOrder
    \/ AppTick
    \/ AppClose
    \/ AppExitOrder

\* the application's handlers, one at a time
SpecApp == InitApp /\ [][NextApp]_vars

\* the quantities the order form can hand over besides a plain number of
\* coins: a blank field, 0, and an amount in USDT, at a price that may be 0
UsdtQty == LowPrice * (CHOOSE p \in Prices : p # LowPrice)

AppFormOrder ==
    \/ \E symbol \in Symbols, side \in Sides, text \in {NA, 0},
          mark \in Prices :
          order_submitted(symbol, side, FormQty(text), "COIN", NA, mark)
    \/ \E symbol \in Symbols, side \in Sides, price \in Prices \cup {0} :
          order_submitted(symbol, side, UsdtQty, "USDT", price, NA)

NextAppForm ==
    \/ NextApp
    \/ AppFormOrder

\* the application's handlers with every quantity the form lets through
SpecAppForm == InitApp /\ [][NextAppForm]_vars

\* --------------------------------------------------- the selected symbol
\* Select.BLANK, the value of a select with nothing chosen
Blank == ""

\* symbol_select_changed: the order form's symbol select took a new value.
\* The fetch_and_update it asks for with call_later runs afterwards, as a
\* tick of its own.
symbol_select_changed(value) ==
    /\ Budget
    /\ steps' = steps + 1
    /\ current_symbol' = IF value # Blank THEN value ELSE current_symbol
    /\ last' = AppCall("symbol_select_changed", NoId, NA, NA, "returned", <<>>)
    /\ UNCHANGED <<positions, history, orders, db, commission_cache, suspended>>

SymbolChanged == \E value \in Symbols \cup {Blank} : symbol_select_changed(value)

\* the form submits the symbol its select shows, which is current_symbol
SymbolsMarketOrder ==
    \E side \in Sides, qty \in Sizes, mark \in MarkValues :
        order_submitted(current_symbol, side, qty, "COIN", NA, mark)

SymbolsLimitOrder ==
    \E side \in Sides, qty \in Sizes, price \in Prices :
        order_submitted(current_symbol, side, qty, "COIN", price, NA)

NextAppSymbols ==
    \/ SymbolChanged
    \/ SymbolsMarketOrder
    \/ SymbolsLimitOrder
    \/ AppTick
    \/ AppClose
    \/ AppExitOrder

\* the application's handlers with the symbol select; every tick carries the
\* prices of current_symbol
SpecAppSymbols == InitApp /\ [][NextAppSymbols]_vars


\* ================================================================== claims
\* a step of operation op
Did(op) == steps' = steps + 1 /\ last'.op = op

Count(seq, id) == Cardinality({i \in 1..Len(seq) : seq[i].id = id})

\* ---------------------------------------------------------------------- C1
\* C1: in an evaluation pass with last price p the orders that leave the
\* pending list are exactly the BUY orders with p <= limit_price and the SELL
\* orders with p >= limit_price (equality fills); the others stay, unchanged
\* and in their order.
C1_TriggeredIffFilled ==
    [][Did("check_and_fill_limit_orders") =>
        orders' = SelectSeq(orders, LAMBDA o :
                    ~(\/ o.side = "BUY" /\ last'.price <= o.limit_price
                      \/ o.side = "SELL" /\ last'.price >= o.limit_price))]_vars

\* a pass that filled an order at exactly its limit price and left another pending
C1_Witness ==
    /\ last.op = "check_and_fill_limit_orders"
    /\ \E i \in 1..Len(last.filled) : last.filled[i].limit_price = last.price
    /\ Len(orders) >= 1

\* ---------------------------------------------------------------------- C2
\* C2: the ids of the open positions, the pending orders and the history
\* records are pairwise distinct in every state.
C2_IdsPairwiseDistinct ==
    Cardinality(IdsOf(positions) \cup IdsOf(orders) \cup IdsOf(history))
        = Len(positions) + Len(orders) + Len(history)

\* ---------------------------------------------------------------------- C3
\* C3: every position that leaves the open set gets exactly one history
\* record with its id in that step, the history grows by exactly one record
\* per closure, and no two history records share an id.
C3_OneRecordPerClosure ==
    [][LET gone == IdsOf(positions) \ IdsOf(positions')
       IN  /\ \A id \in gone : Count(history, id) = 0 /\ Count(history', id) = 1
           /\ Len(history') = Len(history) + Cardinality(gone)
           /\ Cardinality(IdsOf(positions')) = Len(positions')
           /\ \A i, j \in 1..Len(history') :
                 history'[i].id = history'[j].id => i = j]_vars

\* an exit order has filled and its position is in the history, not in the open set
C3_Witness ==
    /\ last.op = "check_and_fill_limit_orders"
    /\ \E i \in 1..Len(last.filled) :
          /\ last.filled[i].linked
          /\ Count(history, last.filled[i].position_id) = 1
          /\ last.filled[i].position_id \notin IdsOf(positions)

\* ---------------------------------------------------------------------- C4
\* C4: a market close of P that returns the closed trade removes P from the
\* positions and every order linked to P from the orders, appends one record
\* with id P to the history, and leaves the other positions, the other
\* orders and the earlier history as they were.
C4_MarketCloseEffect ==
    [][(Did("close_position_market") /\ last'.outcome = "returned") =>
        LET P == last'.id
        IN  /\ P \in IdsOf(positions)
            /\ positions' = SelectSeq(positions, LAMBDA p : p.id # P)
            /\ Len(positions') = Len(positions) - 1
            /\ orders' = SelectSeq(orders,
                            LAMBDA o : ~(o.linked /\ o.position_id = P))
            /\ Len(history') = Len(history) + 1
            /\ SubSeq(history', 1, Len(history)) = history
            /\ history'[Len(history')].id = P]_vars

\* P was closed at market; an order that was not linked to P is still pending
C4_Witness ==
    /\ last.op = "close_position_market"
    /\ last.outcome = "returned"
    /\ Count(history, last.id) = 1
    /\ last.id \notin IdsOf(positions)
    /\ Len(orders) >= 1

\* ---------------------------------------------------------------------- C5
\* C5: in every state between operations, every pending order that carries
\* a position_id refers to a position that is open.
C5_LinkedOrdersReferOpenPositions ==
    \A i \in 1..Len(orders) :
        orders[i].linked => orders[i].position_id \in IdsOf(positions)


\* ---------------------------------------------------------------------- C6
\* C6: a close and its durable write are one unit: a position leaves the
\* open set, and a record enters the in-memory history, only if the record
\* was written to the store (market close and exit fill alike).
C6_ClosedOnlyIfPersisted ==
    [][\A id \in (IdsOf(positions) \ IdsOf(positions'))
                    \cup (IdsOf(history') \ IdsOf(history)) :
          id \in IdsOf(db')]_vars

C8_CancelFrame ==
    [][Did("cancel_order") =>
        /\ last'.outcome = "returned"
        /\ UNCHANGED <<positions, history, db>>
        /\ orders' = SelectSeq(orders, LAMBDA o : o.id # last'.id)
        /\ (last'.id \notin IdsOf(orders) => orders' = orders)]_vars

\* a pending order was cancelled and another is still pending
C8_Witness ==
    /\ last.op = "cancel_order"
    /\ last.id # UnknownId
    /\ last.id \notin IdsOf(orders)
    /\ Len(orders) >= 1

\* ---------------------------------------------------------------------- C9
\* C9: submitting an exit order for a position_id that is not open fails
\* with NotFoundError and appends no order.
C9_ExitOrderNeedsOpenPosition ==
    [][(/\ Did("submit_limit_order")
        /\ last'.id # NoId
        /\ last'.id \notin IdsOf(positions)) =>
        /\ last'.outcome = "NotFoundError"
        /\ orders' = orders]_vars

\* --------------------------------------------------------------------- C10
\* C10: when a pass triggers an order linked to an open position P, P is
\* closed at the order's limit_price with P's own maker rate: P leaves the
\* positions and the pass appends a record with P's id, symbol, side, size
\* and entry, close = limit_price and net_pnl = (limit_price - entry) * size
\* * side_sign - open_fee - limit_price * size * maker_rate(P).  Of several
\* triggered orders linked to P the first submitted closes it.
C10_ExitFillClosesAtLimit ==
    [][Did("check_and_fill_limit_orders") =>
        \A i \in 1..Len(positions) :
            LET P == positions[i]
                trig == SelectSeq(orders, LAMBDA o :
                            /\ o.linked /\ o.position_id = P.id
                            /\ \/ o.side = "BUY" /\ last'.price <= o.limit_price
                               \/ o.side = "SELL" /\ last'.price >= o.limit_price)
            IN  trig # <<>> =>
                  /\ P.id \notin IdsOf(positions')
                  /\ \E k \in (Len(history) + 1)..Len(history') :
                        history'[k] =
                          [id |-> P.id, symbol |-> P.symbol, side |-> P.side,
                           size |-> P.size, entry |-> P.entry,
                           close |-> trig[1].limit_price,
                           net_pnl |->
                              (trig[1].limit_price - P.entry) * P.size
                                  * (IF P.side = "BUY" THEN 1 ELSE -1) * Scale
                              - P.open_fee
                              - trig[1].limit_price * P.size * P.maker_fee_rate]]_vars

\* an exit order filled at a last price other than its limit, and its
\* position is in the history at the limit price
C10_Witness ==
    /\ last.op = "check_and_fill_limit_orders"
    /\ \E i \in 1..Len(last.filled) :
          /\ last.filled[i].linked
          /\ last.filled[i].limit_price # last.price
          /\ \E k \in 1..Len(history) :
                /\ history[k].id = last.filled[i].position_id
                /\ history[k].close = last.filled[i].limit_price

\* --------------------------------------------------------------------- C11
\* C11: in a pass that returns, every triggered order that is not linked to a
\* position leaves the pending list and becomes exactly one new position
\* with the order's id, symbol, side and size, entry = the order's limit
\* price (not the last price), open_fee = limit_price * size * maker rate of
\* the symbol, pnl 0 and net_pnl = -open_fee; the positions of the pass are
\* those that were open plus these; and a pass that fills only such orders
\* leaves the history and the store as they were.
C11_EntryFillOpensPosition ==
    [][(Did("check_and_fill_limit_orders") /\ last'.outcome = "returned") =>
        LET entries == SelectSeq(orders, LAMBDA o :
                          /\ ~o.linked
                          /\ \/ o.side = "BUY" /\ last'.price <= o.limit_price
                             \/ o.side = "SELL" /\ last'.price >= o.limit_price)
            exits == SelectSeq(orders, LAMBDA o :
                          /\ o.linked
                          /\ \/ o.side = "BUY" /\ last'.price <= o.limit_price
                             \/ o.side = "SELL" /\ last'.price >= o.limit_price)
        IN  /\ \A k \in 1..Len(entries) :
                  LET o == entries[k]
                      maker == commission_cache'[o.symbol][1]
                  IN  /\ o \notin Range(orders')
                      /\ Count(positions, o.id) = 0
                      /\ Count(positions', o.id) = 1
                      /\ \E i \in 1..Len(positions') :
                            /\ positions'[i].id = o.id
                            /\ positions'[i].symbol = o.symbol
                            /\ positions'[i].side = o.side
                            /\ positions'[i].size = o.size
                            /\ positions'[i].entry = o.limit_price
                            /\ positions'[i].open_fee = o.limit_price * o.size * maker
                            /\ positions'[i].pnl = 0
                            /\ positions'[i].net_pnl = 0 - o.limit_price * o.size * maker
            /\ \A i \in 1..Len(positions') :
                  \/ positions'[i] \in Range(positions)
                  \/ positions'[i].id \in IdsOf(entries)
            /\ exits = <<>> => history' = history /\ db' = db]_vars

\* an entry order filled at a last price other than its limit: its position
\* is open at the limit price
C11_Witness ==
    /\ last.op = "check_and_fill_limit_orders"
    /\ last.outcome = "returned"
    /\ \E k \in 1..Len(last.filled), i \in 1..Len(positions) :
          /\ ~last.filled[k].linked
          /\ last.filled[k].limit_price # last.price
          /\ positions[i].id = last.filled[k].id
          /\ positions[i].entry = last.filled[k].limit_price

\* --------------------------------------------------------------------- C12
\* C12: refreshing unrealized PnL is idempotent: the positions a refresh
\* with mark m leaves are a fixed point of the refresh with m, and a
\* refresh with m that directly follows a refresh with m changes nothing.
C12_RefreshIdempotent ==
    [][Did("update_positions_pnl") =>
        /\ [i \in 1..Len(positions') |-> RefreshPnl(positions'[i], last'.price)]
              = positions'
        /\ (last.op = "update_positions_pnl" /\ last.price = last'.price)
              => positions' = positions]_vars

\* a refresh has moved the pnl of a position away from its opening values
C12_Witness ==
    /\ last.op = "update_positions_pnl"
    /\ \E i \in 1..Len(positions) :
          /\ positions[i].pnl # 0
          /\ positions[i].net_pnl # 0 - positions[i].open_fee
          /\ positions[i].entry # last.price

\* --------------------------------------------------------------------- C13
\* C13: a refresh with mark m adds and removes no position and leaves the
\* orders, the history and the store alone; every position keeps its other
\* fields and gets pnl = (m - entry) * size * sign and
\* net_pnl = pnl - open_fee - m * size * its own taker rate.
C13_RefreshIsPureUpdate ==
    [][Did("update_positions_pnl") =>
        /\ orders' = orders
        /\ history' = history
        /\ db' = db
        /\ Len(positions') = Len(positions)
        /\ \A i \in 1..Len(positions) :
              LET P == positions[i]
                  m == last'.price
                  pnl == (m - P.entry) * P.size
                            * (IF P.side = "BUY" THEN 1 ELSE -1) * Scale
              IN  positions'[i] =
                     [P EXCEPT !.pnl = pnl,
                               !.net_pnl = pnl - P.open_fee
                                               - m * P.size * P.taker_fee_rate]]_vars

\* a refreshed position whose own taker rate is not the default one, with an
\* order pending
C13_Witness ==
    /\ last.op = "update_positions_pnl"
    /\ orders # <<>>
    /\ \E i \in 1..Len(positions) :
          /\ positions[i].taker_fee_rate # DefaultTaker
          /\ positions[i].net_pnl =
                positions[i].pnl - positions[i].open_fee
                   - last.price * positions[i].size * positions[i].taker_fee_rate

\* --------------------------------------------------------------------- C14
\* C14: the in-memory history is append-only: in every step of every
\* operation the history before the step is a prefix of the history after.
C14_HistoryAppendOnly ==
    [][/\ Len(history) <= Len(history')
       /\ SubSeq(history', 1, Len(history)) = history]_vars

\* the history loaded at start has grown by the record of a closure
C14_Witness ==
    /\ Len(history) >= 2
    /\ history[1] = OldTrade
    /\ last.op \in {"close_position_market", "check_and_fill_limit_orders"}

\* --------------------------------------------------------------------- C20
\* C20: a market close of position P at mark price c that returns appends
\* the record of P with close = c and
\* net_pnl = (c - entry) * size * sign - open_fee - c * size * taker rate,
\* the taker rate being the one captured on P.  The worked example: a BUY of
\* size 1 opened at 50,000 with taker 0.0004 (open_fee 20) and closed at
\* 51,000 has pnl 1,000, close fee 20.4 and net_pnl 959.6.
C20_MarketCloseNumbers ==
    [][(/\ Did("close_position_market")
        /\ last'.outcome = "returned") =>
          LET i == CHOOSE k \in 1..Len(positions) :
                      /\ positions[k].id = last'.id
                      /\ \A j \in 1..(k - 1) : positions[j].id # last'.id
              P == positions[i]
              c == last'.price
              example == ClosedTrade(
                            NewPosition(Id("BTCUSDT", "0a3f1c"), "BTCUSDT", "BUY", 1,
                                        50000, DefaultMaker, DefaultTaker,
                                        DefaultTaker),
                            51000, DefaultTaker)
          IN  /\ Len(history') = Len(history) + 1
              /\ history'[Len(history')] =
                    [id |-> P.id, symbol |-> P.symbol, side |-> P.side,
                     size |-> P.size, entry |-> P.entry, close |-> c,
                     net_pnl |-> (c - P.entry) * P.size
                                    * (IF P.side = "BUY" THEN 1 ELSE -1) * Scale
                                 - P.open_fee
                                 - c * P.size * P.taker_fee_rate]
              /\ example.net_pnl * 10 = 9596 * Scale
              /\ example.close = 51000]_vars

\* a position with a taker rate of its own was closed at a mark price other
\* than its entry price
C20_Witness ==
    /\ last.op = "close_position_market"
    /\ last.outcome = "returned"
    /\ history # <<>>
    /\ LET h == history[Len(history)]
       IN  /\ h.id = last.id
           /\ h.close = last.price
           /\ h.close # h.entry
           /\ h.symbol = "ETHUSDT"

\* --------------------------------------------------------------------- C17
\* C17: a pass that returns hands back exactly the triggered orders in
\* their submission order; the positions it opens are appended after the
\* positions that stay open, in the order of their entry orders; the records
\* it adds to the history are in the order of the exit orders that closed
\* the positions, each at its order's limit price; and no order fires twice:
\* one position per entry order, one record per closed position.
C17_FillsInSubmissionOrder ==
    [][(Did("check_and_fill_limit_orders") /\ last'.outcome = "returned") =>
        LET filled == SelectSeq(orders, LAMBDA o :
                          \/ o.side = "BUY" /\ last'.price <= o.limit_price
                          \/ o.side = "SELL" /\ last'.price >= o.limit_price)
            entries == SelectSeq(filled, LAMBDA o : ~o.linked)
            \* the exit orders that find their position open: the first
            \* triggered one of each open position
            K == {k \in 1..Len(filled) :
                    /\ filled[k].linked
                    /\ filled[k].position_id \in IdsOf(positions)
                    /\ \A j \in 1..(k - 1) :
                          ~(filled[j].linked
                            /\ filled[j].position_id = filled[k].position_id)}
            nth(a) == CHOOSE k \in K : Cardinality({j \in K : j <= k}) = a
            closedIds == {filled[k].position_id : k \in K}
            stay == SelectSeq(positions, LAMBDA p : p.id \notin closedIds)
        IN  /\ last'.filled = filled
            /\ [i \in 1..Len(positions') |-> positions'[i].id]
                  = [i \in 1..Len(stay) |-> stay[i].id]
                       \o [k \in 1..Len(entries) |-> entries[k].id]
            /\ Len(history') = Len(history) + Cardinality(K)
            /\ SubSeq(history', 1, Len(history)) = history
            /\ \A a \in 1..Cardinality(K) :
                  /\ history'[Len(history) + a].id = filled[nth(a)].position_id
                  /\ history'[Len(history) + a].close = filled[nth(a)].limit_price]_vars

\* a pass closed two positions through their exit orders: the records are
\* the last two of the history, in the order of the orders
C17_Witness ==
    /\ last.op = "check_and_fill_limit_orders"
    /\ last.outcome = "returned"
    /\ Len(history) >= 2
    /\ \E i, j \in 1..Len(last.filled) :
          /\ i < j
          /\ last.filled[i].linked
          /\ last.filled[j].linked
          /\ last.filled[i].position_id # last.filled[j].position_id
          /\ history[Len(history) - 1].id = last.filled[i].position_id
          /\ history[Len(history)].id = last.filled[j].position_id

\* --------------------------------------------------------------------- C15
\* C15: an update cycle whose tick cannot be fetched or parsed (the feed
\* call raises, or one of the two prices is not numeric) returns without
\* raising and leaves the positions, the pending orders, the history and the
\* store exactly as they were.
C15_FailedTickChangesNothing ==
    [][(/\ Did("fetch_and_update")
        /\ \/ last'.outcome = "logged"
           \/ last'.price = NA
           \/ last'.mark = NA) =>
          /\ last'.outcome \in {"returned", "logged"}
          /\ positions' = positions
          /\ orders' = orders
          /\ history' = history
          /\ db' = db]_vars

\* a cycle with a non-numeric mark price ran while an order that the last
\* price of the tick triggers was pending and a position was open
C15_Witness ==
    /\ last.op = "fetch_and_update"
    /\ last.mark = NA
    /\ last.price # NA
    /\ positions # <<>>
    /\ \E k \in 1..Len(orders) :
          \/ orders[k].side = "BUY" /\ last.price <= orders[k].limit_price
          \/ orders[k].side = "SELL" /\ last.price >= orders[k].limit_price

\* --------------------------------------------------------------------- C16
\* C16: in every update cycle whose tick has a numeric last price the
\* pending orders are evaluated and the triggered ones leave the pending
\* list, whatever the mark price of the tick; and in every cycle whose tick
\* has a numeric mark price every open position carries the pnl of that mark
\* price, whatever the last price.
C16_ValidPriceIsUsed ==
    [][(Did("fetch_and_update") /\ last'.outcome = "returned") =>
        /\ last'.price # NA =>
              orders' = SelectSeq(orders, LAMBDA o :
                          ~(\/ o.side = "BUY" /\ last'.price <= o.limit_price
                            \/ o.side = "SELL" /\ last'.price >= o.limit_price))
        /\ last'.mark # NA =>
              \A i \in 1..Len(positions') :
                  positions'[i].pnl =
                     (last'.mark - positions'[i].entry) * positions'[i].size
                        * (IF positions'[i].side = "BUY" THEN 1 ELSE -1) * Scale]_vars

\* --------------------------------------------------------------------- C19
\* C19: a market order of side s and size q filled at price p with rates
\* (maker m, taker t) appends one position with entry = p,
\* open_fee = p * q * t, pnl = 0, net_pnl = -open_fee and
\* breakeven = p * (1 + 2m) for BUY, p * (1 - 2m) for SELL.  Stated for the
\* application's order form, whose rates are m = fee_rate_maker and
\* t = fee_rate_taker.
C19_MarketOrderNumbers ==
    [][(/\ Did("order_submitted")
        /\ last'.outcome = "returned"
        /\ last'.price = NA
        /\ last'.mark # NA) =>
          /\ Len(positions') = Len(positions) + 1
          /\ SubSeq(positions', 1, Len(positions)) = positions
          /\ LET P == positions'[Len(positions')]
                 p == last'.mark
             IN  /\ P.entry = p
                 /\ P.open_fee = p * P.size * fee_rate_taker
                 /\ P.pnl = 0
                 /\ P.net_pnl = 0 - P.open_fee
                 /\ P.breakeven = IF P.side = "BUY"
                                  THEN p * (Scale + 2 * fee_rate_maker)
                                  ELSE p * (Scale - 2 * fee_rate_maker)]_vars

\* --------------------------------------------------------------------- C18
\* C18: a market close looks its position up again when it resumes: if the
\* position it was called for has been closed while the call waited for the
\* price, the resumed call changes nothing, neither positions, orders,
\* history nor store, and the history holds one record of the position.
C18_ResumedCloseRevalidates ==
    [][(/\ Len(suspended') < Len(suspended)
        /\ last'.op = "close_position_market resumed"
        /\ last'.id \notin IdsOf(positions)) =>
          /\ positions' = positions
          /\ orders' = orders
          /\ history' = history
          /\ db' = db
          /\ Count(history', last'.id) = 1]_vars

\* --------------------------------------------------------------------- C21
\* C21: no fee is charged twice.  After every step every open position has
\* open_fee = entry * size * one of its two rates, and its net_pnl is either
\* -open_fee (never refreshed) or pnl - open_fee - m * size * taker rate for
\* one mark price m, however many refreshes ran; every record a step adds to
\* the history has net_pnl = price pnl - the position's open_fee - one close
\* fee at the close price; and submitting or cancelling an order changes no
\* position and no record.
C21_NoFeeChargedTwice ==
    [][/\ \A i \in 1..Len(positions') :
             LET P == positions'[i]
                 sign == IF P.side = "BUY" THEN 1 ELSE -1
             IN  /\ \E r \in {P.maker_fee_rate, P.taker_fee_rate} :
                        P.open_fee = P.entry * P.size * r
                 /\ \/ P.pnl = 0 /\ P.net_pnl = 0 - P.open_fee
                    \/ \E m \in Prices :
                          /\ P.pnl = (m - P.entry) * P.size * sign * Scale
                          /\ P.net_pnl = P.pnl - P.open_fee
                                            - m * P.size * P.taker_fee_rate
       /\ \A k \in (Len(history) + 1)..Len(history') :
             \E i \in 1..Len(positions) :
                 LET P == positions[i]
                     h == history'[k]
                     sign == IF P.side = "BUY" THEN 1 ELSE -1
                 IN  /\ h.id = P.id
                     /\ \E rc \in {P.maker_fee_rate, P.taker_fee_rate} :
                           h.net_pnl = (h.close - P.entry) * P.size * sign * Scale
                                          - P.open_fee - h.close * P.size * rc
       /\ (Did("submit_limit_order") \/ Did("cancel_order")) =>
              positions' = positions /\ history' = history /\ db' = db]_vars

\* a position opened by a market order was closed by its exit order at a
\* price other than its entry: taker fee for the open leg, maker fee for the
\* close leg, each once
C21_Witness ==
    /\ last.op = "check_and_fill_limit_orders"
    /\ last.outcome = "returned"
    /\ history # <<>>
    /\ LET h == history[Len(history)]
       IN  /\ h.close # h.entry
           /\ \E k \in 1..Len(last.filled) :
                 /\ last.filled[k].linked
                 /\ last.filled[k].position_id = h.id
           /\ \E ro, rc \in 1..(2 * DefaultTaker) :
                 /\ ro # rc
                 /\ h.net_pnl = (h.close - h.entry) * h.size
                                   * (IF h.side = "BUY" THEN 1 ELSE -1) * Scale
                                - h.entry * h.size * ro - h.close * h.size * rc

C23_SizePositive ==
    \A i \in 1..Len(positions) : positions[i].size > 0

\* --------------------------------------------------------------------- C24
\* C24: in every reachable state every open position has at most one
\* pending order linked to it.
C24_OneExitOrderPerPosition ==
    \A i \in 1..Len(positions) :
        Cardinality({k \in 1..Len(orders) :
                        orders[k].linked /\ orders[k].position_id = positions[i].id})
            <= 1

\* --------------------------------------------------------------------- C25
\* C25: a lookup that is not served from the cache returns decimal
\* fractions: for each of the two rates, a raw value of 1 or more (exactly 1
\* included) is divided by 10,000, a raw value below 1 is returned as it
\* is, and a missing field or a failed lookup gives the default (maker
\* 0.0002, taker 0.0004).
C25_RatesAreFractions ==
    [][(Did("get_symbol_commission_rates") /\ ~last'.cached) =>
        \A n \in 1..2 :
            LET raw == last'.raw[n]
                rate == last'.rates[n]
            IN  /\ raw >= Scale => rate = raw \div Scale
                /\ (raw # Missing /\ raw < Scale) => rate = raw
                /\ raw = Missing =>
                      rate = IF n = 1 THEN DefaultMaker ELSE DefaultTaker
                /\ rate < Scale]_vars

\* --------------------------------------------------------------------- C26
\* C26: when the feed's mark price is not numeric, a market order without a
\* price creates no position and a market close closes nothing: positions,
\* pending orders, history and store are as they were.
C26_UnavailableMarkChangesNothing ==
    [][(/\ \/ Did("submit_market_order")
           \/ Did("close_position_market")
        /\ last'.price = NA) =>
          /\ positions' = positions
          /\ orders' = orders
          /\ history' = history
          /\ db' = db]_vars

\* a market close of an open position met a non-numeric mark price; the
\* position is still open
C26_Witness ==
    /\ last.op = "close_position_market"
    /\ last.price = NA
    /\ last.outcome = "None"
    /\ last.id \in IdsOf(positions)

\* --------------------------------------------------------------------- C27
\* C27: appending a trade to the store is an upsert keyed by id: whenever a
\* step appends a record to the history, and with it to the store, the write
\* succeeds, also when the store already has a row of that id, and the store
\* then holds exactly one row of that id, equal to the record.
C27_AppendIsUpsert ==
    [][\A k \in (Len(history) + 1)..Len(history') :
          /\ last'.outcome # "IntegrityError"
          /\ Count(db', history'[k].id) = 1
          /\ \E j \in 1..Len(db') : db'[j] = history'[k]]_vars

\* --------------------------------------------------------------------- C28
\* C28: the history loaded at a restart is the sequence of trades appended
\* to the store before it, in the order of their insertion, also when
\* several of them were stored within one second.
C28_ReloadKeepsInsertionOrder ==
    [][Did("restart") => history' = db]_vars

\* --------------------------------------------------------------------- C29
\* C29: the application's id generator returns, in every state of the
\* ledger, an empty history included, an id that is not the id of a
\* position, of a pending order or of a history record: every order
\* submission that has an entry price gets such an id.
C29_AppIdsUnique ==
    [][(/\ Did("order_submitted")
        /\ ~(last'.price = NA /\ last'.mark = NA)) =>
          /\ last'.outcome = "returned"
          /\ last'.id \notin (IdsOf(positions) \cup IdsOf(orders)
                                \cup IdsOf(history))]_vars

\* --------------------------------------------------------------------- C30
\* C30: a triggered order whose position_id matches no open position is
\* removed from the pending list and is part of the returned fill list; a
\* pass in which every triggered order is of that kind changes nothing
\* else: no position is added or removed, the history and the store stay.
C30_OrphanExitOrderOnlyRemoved ==
    [][(Did("check_and_fill_limit_orders") /\ last'.outcome = "returned") =>
        LET trig == SelectSeq(orders, LAMBDA o :
                        \/ o.side = "BUY" /\ last'.price <= o.limit_price
                        \/ o.side = "SELL" /\ last'.price >= o.limit_price)
            orphan(o) == o.linked /\ o.position_id \notin IdsOf(positions)
        IN  /\ \A k \in 1..Len(trig) :
                  orphan(trig[k]) =>
                     /\ trig[k] \notin Range(orders')
                     /\ trig[k] \in Range(last'.filled)
            /\ (\A k \in 1..Len(trig) : orphan(trig[k])) =>
                  /\ positions' = positions
                  /\ history' = history
                  /\ db' = db
                  /\ last'.filled = trig]_vars

\* a pass filled an order linked to a position that never existed, while a
\* position was open: the position is still open
C30_Witness ==
    /\ last.op = "check_and_fill_limit_orders"
    /\ last.outcome = "returned"
    /\ positions # <<>>
    /\ \E k \in 1..Len(last.filled) :
          /\ last.filled[k].linked
          /\ last.filled[k].position_id \notin (IdsOf(positions) \cup IdsOf(history))
          /\ last.filled[k] \notin Range(orders)

\* --------------------------------------------------------------------- C31
\* C31: when a pending order was removed by cancel_order or by a market
\* close while a pass waited for fee rates, the pass still ends without an
\* error: an order of the pass that was removed gives no position and no
\* history record, and every other order the pass had found triggered is
\* filled (gone from the orders; an entry order is a position, an exit order
\* has closed its open position into a record).
C31_PassSurvivesRemoval ==
    [][(/\ Len(suspended) = 1
        /\ suspended' = <<>>
        /\ last'.op = "check_and_fill_limit_orders resumed"
        /\ \E j \in (suspended[1].k + 1)..Len(suspended[1].filled) :
              suspended[1].filled[j] \notin Range(orders)) =>
          LET f == suspended[1]
              rest == {f.filled[j] : j \in (f.k + 1)..Len(f.filled)}
              removed == rest \ Range(orders)
              kept == rest \cap Range(orders)
              added == {history'[i].id : i \in (Len(history) + 1)..Len(history')}
          IN  /\ last'.outcome = "returned"
              /\ Len(history') >= Len(history)
              /\ \A o \in removed : ~o.linked => o.id \notin IdsOf(positions')
              /\ added \subseteq {o.position_id : o \in {x \in kept : x.linked}}
              /\ \A o \in kept :
                    /\ o \notin Range(orders')
                    /\ ~o.linked => o.id \in IdsOf(positions')
                    /\ (o.linked /\ o.position_id \in IdsOf(positions)) =>
                          /\ o.position_id \notin IdsOf(positions')
                          /\ o.position_id \in added]_vars

\* --------------------------------------------------------------------- C32
\* C32: a tick touches only the ledger entries of its own symbol.  An update
\* cycle fetches the prices of the selected symbol: every pending order of
\* another symbol is still pending after it, and every open position of
\* another symbol is still open with the pnl and net_pnl it had.
C32_TickAffectsOwnSymbolOnly ==
    [][Did("fetch_and_update") =>
        /\ \A k \in 1..Len(orders) :
              orders[k].symbol # current_symbol => orders[k] \in Range(orders')
        /\ \A i \in 1..Len(positions) :
              positions[i].symbol # current_symbol =>
                 \E j \in 1..Len(positions') :
                    /\ positions'[j].id = positions[i].id
                    /\ positions'[j].pnl = positions[i].pnl
                    /\ positions'[j].net_pnl = positions[i].net_pnl]_vars

====
